---- MODULE Spec2Model ----
(***************************************************************************)
(* Model of the mayastor message-bus subsystem:                            *)
(*   - mbus_nats.rs : the NATS_MSG_BUS once-cell, message_bus_init, the    *)
(*                    connect retry loop and wait_for_connection;          *)
(*   - mod.rs       : the MESSAGE_BUS_REG once-cell, Registration::init,   *)
(*                    fini and the heartbeat loop Registration::run.       *)
(* Every thread the code spawns is a process of the model with its own     *)
(* program counter; a step runs from one access of shared state to the     *)
(* next one.                                                               *)
(***************************************************************************)
EXTENDS Integers, Sequences, FiniteSets, TLC

\* ------------------------------------------------------------------ bounds
\* number of Registration::init calls (each spawns a runner thread)
MaxInit == 2
\* number of message_bus_init calls (each spawns a connect thread)
MaxBusInit == 2
\* number of Registration::fini calls
MaxFini == 2
\* the broker refuses at most this many connection attempts before it is up
MaxDown == 2
\* heartbeat timer expiries are served while the publish log is shorter
MaxPub == 2
\* "not ready" warnings one wait_for_connection call may emit in the model
MaxWarn == 2
\* publish and flush calls the transport may fail with an io error
MaxIoFail == 1
\* longest value of MAYASTOR_HB_INTERVAL, in characters
MaxEnvLen == 2
\* messages received on the channel of the instance
MaxMsg == 1

\* ------------------------------------------------------------- input sets
\* (node, grpc_endpoint) arguments of Registration::init
InitArgs == { <<"node-a", "10.0.0.1:10124">>, <<"node-b", "10.0.0.2:10124">> }
Servers == {"nats-1", "nats-2"}
\* MAYASTOR_HB_INTERVAL: unset, or set to a string (a sequence of characters)
EnvValues ==
    { [set |-> FALSE, val |-> <<>>],
      [set |-> TRUE, val |-> <<"5">>] }

\* the characters of the values of MAYASTOR_HB_INTERVAL: digits, the two
\* signs, a letter and a blank
EnvChars == {"0", "1", "9", "+", "-", "x", " "}
\* MAYASTOR_HB_INTERVAL: unset, or set to any string of these characters
\* up to MaxEnvLen long
HbEnvValues ==
    { [set |-> FALSE, val |-> <<>>] } \cup
    { [set |-> TRUE, val |-> v] :
        v \in UNION { [1..n -> EnvChars] : n \in 0..MaxEnvLen } }

\* Option<String>
None == <<>>
Some(v) == <<v>>
\* the name and the two endpoints of MayastorEnvironment: each endpoint is
\* given on the command line or not
CliArgs ==
    { [name |-> a[1], mbus_endpoint |-> m, grpc_endpoint |-> g] :
        a \in InitArgs,
        m \in {None} \cup {Some(server) : server \in Servers},
        g \in {None} \cup {Some(b[2]) : b \in InitArgs} }

LoopIds == 1..MaxInit
BusIds == 1..MaxBusInit

\* the empty once-cells
NoReg == [none |-> TRUE]
NoBus == [none |-> TRUE]
NoArgs == [none |-> TRUE]

\* --------------------------------------------------------- pure functions
\* const HB_INTERVAL: Duration = Duration::from_secs(2)
HB_INTERVAL == 2

Digits == <<"0", "1", "2", "3", "4", "5", "6", "7", "8", "9">>

IsDigit(c) == \E i \in 1..10 : Digits[i] = c

DigitVal(c) == (CHOOSE i \in 1..10 : Digits[i] = c) - 1

RECURSIVE DigitsVal(_)
DigitsVal(s) ==
    IF Len(s) = 0 THEN 0
    ELSE 10 * DigitsVal(SubSeq(s, 1, Len(s) - 1)) + DigitVal(s[Len(s)])

\* a parse that takes digits only
ParseU64DigitsOnly(s) ==
    IF Len(s) > 0 /\ \A i \in 1..Len(s) : IsDigit(s[i])
    THEN [ok |-> TRUE, num |-> DigitsVal(s)]
    ELSE [ok |-> FALSE, num |-> 0]

\* str::parse::<u64>: an optional leading "+", then at least one decimal
\* digit and nothing else; a "-" is no digit of an unsigned type.
\* (The strings of the model are too short to overflow 64 bits.)
ParseU64(s) ==
    LET body == IF Len(s) > 0 /\ s[1] = "+" THEN Tail(s) ELSE s
    IN  IF Len(body) > 0 /\ \A i \in 1..Len(body) : IsDigit(body[i])
        THEN [ok |-> TRUE, num |-> DigitsVal(body)]
        ELSE [ok |-> FALSE, num |-> 0]

\* match env::var(..).map(|v| v.parse::<u64>()) { Ok(Ok(num)) => num, _ => HB_INTERVAL }
HbInterval(e) ==
    IF e.set /\ ParseU64(e.val).ok THEN ParseU64(e.val).num ELSE HB_INTERVAL

\* Registration::new: the Configuration (the channel pair is the variable closed)
RegistrationNew(node, grpc, e) ==
    [node |-> node, grpc_endpoint |-> grpc, hb_interval |-> HbInterval(e)]

\* a serialisation that keeps the field's own name
RegisterPayloadUnrenamed(cfg) ==
    << <<"id", cfg.node>>, <<"grpc_endpoint", cfg.grpc_endpoint>> >>

\* serde_json::to_vec(&RegisterArgs{..}): the object's members in field order,
\* grpc_endpoint renamed to "grpcEndpoint"
RegisterPayload(cfg) ==
    << <<"id", cfg.node>>, <<"grpcEndpoint", cfg.grpc_endpoint>> >>

\* serde_json::to_vec(&DeregisterArgs{..})
DeregisterPayload(cfg) == << <<"id", cfg.node>> >>

\* ------------------------------------------------------------------ state
VARIABLES
    env,          \* MAYASTOR_HB_INTERVAL of the process
    reg,          \* MESSAGE_BUS_REG: NoReg or the Configuration it holds
    regsBuilt,    \* number of Registration::new calls
    firstArgs,    \* arguments of the first Registration::init call
    initCalls,    \* number of Registration::init calls
    finiCalls,    \* number of Registration::fini calls
    closed,       \* the cancellation channel is closed
    loopPc,       \* position of each runner thread in Registration::run
    waitLogError, \* log_error of each runner's wait_for_connection call
    waitWarns,    \* "Message bus not ready" warnings of the call in progress
    published,    \* the fire calls that reached the transport, in order
    flushed,      \* result of each runner's flush
    ioFails,      \* io errors the transport has returned
    busCell,      \* NATS_MSG_BUS: "empty", "running" (initialiser active), "complete"
    bus,          \* the NatsMessageBus NATS_MSG_BUS holds, or NoBus
    busInitCalls, \* number of message_bus_init calls
    busPc,        \* position of each connect thread
    busServer,    \* server argument of each connect thread
    connLogError, \* log_error of each thread's connect call
    connFails,    \* failed attempts of the connect call in progress
    connWarns,    \* "Error connection" warnings of the call in progress
    downFor,      \* attempts the broker will still refuse
    sessions,     \* transport sessions opened so far
    msgLogged,    \* "Messages have not been implemented yet" lines logged
    cliArgs,      \* MayastorEnvironment of the process: name and endpoints
    ssPc          \* how far the SPDK framework has taken the subsystem

regVars == <<env, reg, regsBuilt, firstArgs, initCalls, finiCalls, closed>>
loopVars == <<loopPc, waitLogError, waitWarns, published, flushed, ioFails>>
busVars == <<busCell, bus, busInitCalls, busPc, busServer, connLogError,
             connFails, connWarns, downFor, sessions>>
msgVars == <<msgLogged>>
subsysVars == <<cliArgs, ssPc>>
vars == <<regVars, loopVars, busVars, msgVars, subsysVars>>

Init ==
    /\ env \in EnvValues
    /\ reg = NoReg
    /\ regsBuilt = 0
    /\ firstArgs = NoArgs
    /\ initCalls = 0
    /\ finiCalls = 0
    /\ closed = FALSE
    /\ loopPc = [l \in LoopIds |-> "unborn"]
    /\ waitLogError = [l \in LoopIds |-> TRUE]
    /\ waitWarns = [l \in LoopIds |-> 0]
    /\ published = <<>>
    /\ flushed = [l \in LoopIds |-> "none"]
    /\ ioFails = 0
    /\ busCell = "empty"
    /\ bus = NoBus
    /\ busInitCalls = 0
    /\ busPc = [t \in BusIds |-> "unborn"]
    /\ busServer = [t \in BusIds |-> "none"]
    /\ connLogError = [t \in BusIds |-> TRUE]
    /\ connFails = [t \in BusIds |-> 0]
    /\ connWarns = [t \in BusIds |-> 0]
    /\ downFor \in 0..MaxDown
    /\ sessions = 0
    /\ msgLogged = 0
    /\ cliArgs = [name |-> "node-a", mbus_endpoint |-> None,
                  grpc_endpoint |-> None]
    /\ ssPc = "none"

\* ------------------------------------------------- connection manager
\* A step of a thread runs from one access of shared state (a once-cell, the
\* broker, the channel, the transport) up to the next one; the sleeps
\* between two polls or two attempts are part of the step before them.

\* a message_bus_init that returns only once the broker can be reached
MessageBusInitBlocking(server) ==
    /\ busInitCalls < MaxBusInit
    /\ downFor = 0
    /\ busInitCalls' = busInitCalls + 1
    /\ busPc' = [busPc EXCEPT ![busInitCalls + 1] = "get_or_init"]
    /\ busServer' = [busServer EXCEPT ![busInitCalls + 1] = server]
    /\ UNCHANGED <<busCell, bus, connLogError, connFails, connWarns,
                   downFor, sessions>>
    /\ UNCHANGED <<regVars, loopVars, msgVars, subsysVars>>

\* message_bus_init(server): spawn a thread that runs NATS_MSG_BUS.get_or_init
MessageBusInit(server) ==
    /\ busInitCalls < MaxBusInit
    /\ busInitCalls' = busInitCalls + 1
    /\ busPc' = [busPc EXCEPT ![busInitCalls + 1] = "get_or_init"]
    /\ busServer' = [busServer EXCEPT ![busInitCalls + 1] = server]
    /\ UNCHANGED <<busCell, bus, connLogError, connFails, connWarns,
                   downFor, sessions>>
    /\ UNCHANGED <<regVars, loopVars, msgVars, subsysVars>>

\* a get_or_init that runs its closure whatever the cell holds
BusGetOrInitNoOnce(t) ==
    /\ busPc[t] = "get_or_init"
    /\ busCell' = IF busCell = "complete" THEN busCell ELSE "running"
    /\ busPc' = [busPc EXCEPT ![t] = "connect"]
    /\ UNCHANGED <<bus, busInitCalls, busServer, connLogError, connFails,
                   connWarns, downFor, sessions>>
    /\ UNCHANGED <<regVars, loopVars, msgVars, subsysVars>>

\* OnceCell::get_or_init on NATS_MSG_BUS: a complete cell is returned as it
\* is (the thread ends and drops its server string), an empty cell makes the
\* caller the initialiser, and a caller that finds another initialiser
\* active blocks until the cell is complete
BusGetOrInit(t) ==
    /\ busPc[t] = "get_or_init"
    /\ busCell # "running"
    /\ IF busCell = "complete"
       THEN /\ busPc' = [busPc EXCEPT ![t] = "exit"]
            /\ busServer' = [busServer EXCEPT ![t] = "none"]
            /\ UNCHANGED busCell
       ELSE /\ busCell' = "running"
            /\ busPc' = [busPc EXCEPT ![t] = "connect"]
            /\ UNCHANGED busServer
    /\ UNCHANGED <<bus, busInitCalls, connLogError, connFails,
                   connWarns, downFor, sessions>>
    /\ UNCHANGED <<regVars, loopVars, msgVars, subsysVars>>

\* a connect that gives up at the first refused attempt
ConnectAttemptGiveUp(t) ==
    /\ busPc[t] = "connect"
    /\ IF downFor = 0
       THEN /\ sessions' = sessions + 1
            /\ bus' = [server |-> busServer[t], session |-> sessions + 1]
            /\ busCell' = "complete"
            /\ busPc' = [busPc EXCEPT ![t] = "exit"]
            /\ busServer' = [busServer EXCEPT ![t] = "none"]
            /\ connFails' = [connFails EXCEPT ![t] = 0]
            /\ connWarns' = [connWarns EXCEPT ![t] = 0]
            /\ connLogError' = [connLogError EXCEPT ![t] = TRUE]
            /\ UNCHANGED downFor
       ELSE /\ downFor' = downFor - 1
            /\ connFails' = [connFails EXCEPT ![t] = @ + 1]
            /\ connWarns' = [connWarns EXCEPT ![t] = @ + 1]
            /\ connLogError' = [connLogError EXCEPT ![t] = FALSE]
            /\ busPc' = [busPc EXCEPT ![t] = "exit"]
            /\ UNCHANGED <<sessions, bus, busCell, busServer>>
    /\ UNCHANGED busInitCalls
    /\ UNCHANGED <<regVars, loopVars, msgVars, subsysVars>>

\* a connect that never clears log_error
ConnectAttemptLoud(t) ==
    /\ busPc[t] = "connect"
    /\ IF downFor = 0
       THEN /\ sessions' = sessions + 1
            /\ bus' = [server |-> busServer[t], session |-> sessions + 1]
            /\ busCell' = "complete"
            /\ busPc' = [busPc EXCEPT ![t] = "exit"]
            /\ busServer' = [busServer EXCEPT ![t] = "none"]
            /\ connFails' = [connFails EXCEPT ![t] = 0]
            /\ connWarns' = [connWarns EXCEPT ![t] = 0]
            /\ connLogError' = [connLogError EXCEPT ![t] = TRUE]
            /\ UNCHANGED downFor
       ELSE /\ downFor' = downFor - 1
            /\ connFails' = [connFails EXCEPT ![t] = @ + 1]
            /\ connWarns' = [connWarns EXCEPT ![t] =
                                IF connLogError[t] THEN @ + 1 ELSE @]
            /\ UNCHANGED <<connLogError, busPc>>
            /\ UNCHANGED <<sessions, bus, busCell, busServer>>
    /\ UNCHANGED busInitCalls
    /\ UNCHANGED <<regVars, loopVars, msgVars, subsysVars>>

\* one pass of the loop of NatsMessageBus::connect, run by the initialiser of
\* the cell. nats::asynk::connect(server) succeeds: the connection is
\* returned, NatsMessageBus::new wraps it, get_or_init stores it in the cell
\* and the thread ends (the locals and counts of the call end with it). Or
\* it fails: warn if log_error, clear log_error,
\* sleep 500 ms and retry.
ConnectAttempt(t) ==
    /\ busPc[t] = "connect"
    /\ IF downFor = 0
       THEN /\ sessions' = sessions + 1
            /\ bus' = [server |-> busServer[t], session |-> sessions + 1]
            /\ busCell' = "complete"
            /\ busPc' = [busPc EXCEPT ![t] = "exit"]
            /\ busServer' = [busServer EXCEPT ![t] = "none"]
            /\ connFails' = [connFails EXCEPT ![t] = 0]
            /\ connWarns' = [connWarns EXCEPT ![t] = 0]
            /\ connLogError' = [connLogError EXCEPT ![t] = TRUE]
            /\ UNCHANGED downFor
       ELSE /\ downFor' = downFor - 1
            /\ connFails' = [connFails EXCEPT ![t] = @ + 1]
            /\ connWarns' = [connWarns EXCEPT ![t] =
                                IF connLogError[t] THEN @ + 1 ELSE @]
            /\ connLogError' = [connLogError EXCEPT ![t] = FALSE]
            /\ UNCHANGED busPc
            /\ UNCHANGED <<sessions, bus, busCell, busServer>>
    /\ UNCHANGED busInitCalls
    /\ UNCHANGED <<regVars, loopVars, msgVars, subsysVars>>

\* -------------------------------------------------- registration service
\* an init that replaces the instance on every call
RegistrationInitOverwrite(node, grpc) ==
    /\ initCalls < MaxInit
    /\ reg' = RegistrationNew(node, grpc, env)
    /\ regsBuilt' = regsBuilt + 1
    /\ firstArgs' = IF initCalls = 0
                    THEN [node |-> node, grpc_endpoint |-> grpc]
                    ELSE firstArgs
    /\ initCalls' = initCalls + 1
    /\ loopPc' = [loopPc EXCEPT ![initCalls + 1] = "wait"]
    /\ UNCHANGED <<env, finiCalls, closed>>
    /\ UNCHANGED <<waitLogError, waitWarns, published, flushed, ioFails>>
    /\ UNCHANGED <<busVars, msgVars, subsysVars>>

\* Registration::init(node, grpc_endpoint):
\*   MESSAGE_BUS_REG.get_or_init(|| Registration::new(node, grpc_endpoint));
\*   std::thread::spawn(|| block_on(Self::get().clone().run()))
\* The closure runs only when the cell is empty; the thread is spawned by
\* every call.
RegistrationInit(node, grpc) ==
    /\ initCalls < MaxInit
    /\ IF reg = NoReg
       THEN /\ reg' = RegistrationNew(node, grpc, env)
            /\ regsBuilt' = regsBuilt + 1
       ELSE UNCHANGED <<reg, regsBuilt>>
    /\ firstArgs' = IF initCalls = 0
                    THEN [node |-> node, grpc_endpoint |-> grpc]
                    ELSE firstArgs
    /\ initCalls' = initCalls + 1
    /\ loopPc' = [loopPc EXCEPT ![initCalls + 1] = "wait"]
    /\ UNCHANGED <<env, finiCalls, closed>>
    /\ UNCHANGED <<waitLogError, waitWarns, published, flushed, ioFails>>
    /\ UNCHANGED <<busVars, msgVars, subsysVars>>

\* a fini that toggles the channel instead of closing it
RegistrationFiniToggle ==
    /\ reg # NoReg
    /\ finiCalls < MaxFini
    /\ finiCalls' = finiCalls + 1
    /\ closed' = ~closed
    /\ UNCHANGED <<env, reg, regsBuilt, firstArgs, initCalls>>
    /\ UNCHANGED <<loopVars, busVars, msgVars, subsysVars>>

\* a fini that takes the publish in flight away from every runner
RegistrationFiniAbort ==
    /\ reg # NoReg
    /\ finiCalls < MaxFini
    /\ finiCalls' = finiCalls + 1
    /\ closed' = TRUE
    /\ loopPc' = [l \in LoopIds |->
                    IF loopPc[l] = "register_inflight"
                    THEN "deregister_inflight" ELSE loopPc[l]]
    /\ UNCHANGED <<env, reg, regsBuilt, firstArgs, initCalls>>
    /\ UNCHANGED <<waitLogError, waitWarns, published, flushed, ioFails>>
    /\ UNCHANGED <<busVars, msgVars, subsysVars>>

\* Registration::fini(&self): self.fini_chan.close(); close() on a closed
\* channel returns false and changes nothing
RegistrationFini ==
    /\ reg # NoReg
    /\ finiCalls < MaxFini
    /\ finiCalls' = finiCalls + 1
    /\ closed' = TRUE
    /\ UNCHANGED <<env, reg, regsBuilt, firstArgs, initCalls>>
    /\ UNCHANGED <<loopVars, busVars, msgVars, subsysVars>>

\* the transport completes a publish or a flush with Ok, or with an io
\* error while it has errors left to return
IoResult(ok) == ok \/ ioFails < MaxIoFail

IoFails(ok) == IF ok THEN ioFails ELSE ioFails + 1

\* message_bus(): NATS_MSG_BUS.get().unwrap() panics the calling runner
\* thread when the cell is empty; otherwise the caller goes on to `next`
MessageBus(next) == IF bus = NoBus THEN "panicked" ELSE next

\* a wait_for_connection that returns without looking at the cell
WaitPollNoCheck(l) ==
    /\ loopPc[l] = "wait"
    /\ loopPc' = [loopPc EXCEPT ![l] = "register"]
    /\ UNCHANGED <<waitLogError, waitWarns, published, flushed, ioFails>>
    /\ UNCHANGED <<regVars, busVars, msgVars, subsysVars>>

\* a wait that gives up on a closed channel and goes straight to deregister
WaitPollCancellable(l) ==
    /\ loopPc[l] = "wait"
    /\ IF bus # NoBus
       THEN /\ loopPc' = [loopPc EXCEPT ![l] =
                            IF closed THEN "deregister_inflight"
                            ELSE "register"]
            /\ waitWarns' = [waitWarns EXCEPT ![l] = 0]
            /\ waitLogError' = [waitLogError EXCEPT ![l] = TRUE]
       ELSE /\ waitWarns[l] < MaxWarn
            /\ waitWarns' = [waitWarns EXCEPT ![l] =
                                IF waitLogError[l] THEN @ + 1 ELSE @]
            /\ waitLogError' = [waitLogError EXCEPT ![l] =
                                IF waitLogError[l] THEN TRUE ELSE @]
            /\ UNCHANGED loopPc
    /\ UNCHANGED <<published, flushed, ioFails>>
    /\ UNCHANGED <<regVars, busVars, msgVars, subsysVars>>

\* one pass of the loop of NatsMessageBus::wait_for_connection:
\*   Some(_) => break;   (the call returns: its local and count end)
\*   None => { if log_error { warn!(..); log_error = true; } sleep; continue }
WaitPoll(l) ==
    /\ loopPc[l] = "wait"
    /\ IF bus # NoBus
       THEN /\ loopPc' = [loopPc EXCEPT ![l] = "register"]
            /\ waitWarns' = [waitWarns EXCEPT ![l] = 0]
            /\ waitLogError' = [waitLogError EXCEPT ![l] = TRUE]
       ELSE /\ waitWarns[l] < MaxWarn
            /\ waitWarns' = [waitWarns EXCEPT ![l] =
                                IF waitLogError[l] THEN @ + 1 ELSE @]
            /\ waitLogError' = [waitLogError EXCEPT ![l] =
                                IF waitLogError[l] THEN TRUE ELSE @]
            /\ UNCHANGED loopPc
    /\ UNCHANGED <<published, flushed, ioFails>>
    /\ UNCHANGED <<regVars, busVars, msgVars, subsysVars>>

\* run after wait_for_connection: the first self.register() of the loop, up
\* to the await of message_bus().fire("register", ..)
RegisterFire(l) ==
    /\ loopPc[l] = "register"
    /\ loopPc' = [loopPc EXCEPT ![l] = MessageBus("register_inflight")]
    /\ UNCHANGED <<waitLogError, waitWarns, published, flushed, ioFails>>
    /\ UNCHANGED <<regVars, busVars, msgVars, subsysVars>>

\* a register whose io error ends run instead of being logged
RegisterDoneAbort(l, ok) ==
    /\ loopPc[l] = "register_inflight"
    /\ IoResult(ok)
    /\ published' = Append(published,
                           [chan |-> "register", payload |-> RegisterPayload(reg),
                            ok |-> ok])
    /\ ioFails' = IoFails(ok)
    /\ loopPc' = [loopPc EXCEPT ![l] = IF ok THEN "select" ELSE "done"]
    /\ UNCHANGED <<waitLogError, waitWarns, flushed>>
    /\ UNCHANGED <<regVars, busVars, msgVars, subsysVars>>

\* connection.publish("register", payload) completes with Ok or an io error;
\* run logs the error and enters the select either way
RegisterDone(l, ok) ==
    /\ loopPc[l] = "register_inflight"
    /\ IoResult(ok)
    /\ published' = Append(published,
                           [chan |-> "register", payload |-> RegisterPayload(reg),
                            ok |-> ok])
    /\ ioFails' = IoFails(ok)
    /\ loopPc' = [loopPc EXCEPT ![l] = "select"]
    /\ UNCHANGED <<waitLogError, waitWarns, flushed>>
    /\ UNCHANGED <<regVars, busVars, msgVars, subsysVars>>

\* a timer arm that leaves the loop instead of continuing it
TimerFiresBreak(l) ==
    /\ loopPc[l] = "select"
    /\ Len(published) < MaxPub
    /\ loopPc' = [loopPc EXCEPT ![l] = MessageBus("deregister_inflight")]
    /\ UNCHANGED <<waitLogError, waitWarns, published, flushed, ioFails>>
    /\ UNCHANGED <<regVars, busVars, msgVars, subsysVars>>

\* select!: the heartbeat timer fires => continue => self.register() up to
\* the await of fire
TimerFires(l) ==
    /\ loopPc[l] = "select"
    /\ Len(published) < MaxPub
    /\ loopPc' = [loopPc EXCEPT ![l] = MessageBus("register_inflight")]
    /\ UNCHANGED <<waitLogError, waitWarns, published, flushed, ioFails>>
    /\ UNCHANGED <<regVars, busVars, msgVars, subsysVars>>

\* a channel arm that takes the closure for a message and goes round the loop
RecvClosedAsMessage(l) ==
    /\ loopPc[l] = "select"
    /\ closed
    /\ Len(published) < MaxPub
    /\ loopPc' = [loopPc EXCEPT ![l] = MessageBus("register_inflight")]
    /\ UNCHANGED <<waitLogError, waitWarns, published, flushed, ioFails>>
    /\ UNCHANGED <<regVars, busVars, msgVars, subsysVars>>

\* a channel arm that ends the loop on any wake-up, closed or not
RecvClosedOrNot(l) ==
    /\ loopPc[l] = "select"
    /\ loopPc' = [loopPc EXCEPT ![l] = MessageBus("deregister_inflight")]
    /\ UNCHANGED <<waitLogError, waitWarns, published, flushed, ioFails>>
    /\ UNCHANGED <<regVars, busVars, msgVars, subsysVars>>

\* select!: rcv_chan.next() yields None (the channel is closed) => break =>
\* self.deregister() up to the await of fire
RecvClosed(l) ==
    /\ loopPc[l] = "select"
    /\ closed
    /\ loopPc' = [loopPc EXCEPT ![l] = MessageBus("deregister_inflight")]
    /\ UNCHANGED <<waitLogError, waitWarns, published, flushed, ioFails>>
    /\ UNCHANGED <<regVars, busVars, msgVars, subsysVars>>

\* a deregister that goes on to the flush whatever the fire returned
DeregisterDoneThenFlush(l, ok) ==
    /\ loopPc[l] = "deregister_inflight"
    /\ IoResult(ok)
    /\ published' = Append(published,
                           [chan |-> "deregister",
                            payload |-> DeregisterPayload(reg),
                            ok |-> ok])
    /\ ioFails' = IoFails(ok)
    /\ loopPc' = [loopPc EXCEPT ![l] = MessageBus("flush_inflight")]
    /\ UNCHANGED <<waitLogError, waitWarns, flushed>>
    /\ UNCHANGED <<regVars, busVars, msgVars, subsysVars>>

\* connection.publish("deregister", payload) completes: an io error returns
\* from deregister through `?` (no flush) and run ends; Ok goes on to
\* message_bus().flush()
DeregisterDone(l, ok) ==
    /\ loopPc[l] = "deregister_inflight"
    /\ IoResult(ok)
    /\ published' = Append(published,
                           [chan |-> "deregister",
                            payload |-> DeregisterPayload(reg),
                            ok |-> ok])
    /\ ioFails' = IoFails(ok)
    /\ loopPc' = [loopPc EXCEPT ![l] =
                    IF ok THEN MessageBus("flush_inflight") ELSE "done"]
    /\ UNCHANGED <<waitLogError, waitWarns, flushed>>
    /\ UNCHANGED <<regVars, busVars, msgVars, subsysVars>>

\* connection.flush() completes: an error is logged, deregister returns Ok
\* and run ends
FlushDone(l, ok) ==
    /\ loopPc[l] = "flush_inflight"
    /\ IoResult(ok)
    /\ ioFails' = IoFails(ok)
    /\ flushed' = [flushed EXCEPT ![l] = IF ok THEN "ok" ELSE "err"]
    /\ loopPc' = [loopPc EXCEPT ![l] = "done"]
    /\ UNCHANGED <<waitLogError, waitWarns, published>>
    /\ UNCHANGED <<regVars, busVars, msgVars, subsysVars>>

\* select!: rcv_chan.next() yields Some(()), a message sent on the open
\* channel: the arm logs it, the select ends and the loop goes round into
\* self.register(), up to the await of fire
RecvMessage(l) ==
    /\ loopPc[l] = "select"
    /\ ~closed
    /\ msgLogged < MaxMsg
    /\ msgLogged' = msgLogged + 1
    /\ loopPc' = [loopPc EXCEPT ![l] = MessageBus("register_inflight")]
    /\ UNCHANGED <<waitLogError, waitWarns, published, flushed, ioFails>>
    /\ UNCHANGED <<regVars, busVars, subsysVars>>

\* ------------------------------------------------------- subsystem glue
\* The SPDK framework creates the subsystem, then calls its init, then its
\* fini; each of the three reads the same command line.

\* both endpoints are given on the command line
BothEndpoints ==
    cliArgs.mbus_endpoint # None /\ cliArgs.grpc_endpoint # None

\* MessageBusSubsystem::new(): message_bus_init(url) when the message-bus
\* endpoint is given (the thread is spawned as in MessageBusInit)
SubsystemNew ==
    /\ ssPc = "none"
    /\ ssPc' = "created"
    /\ IF cliArgs.mbus_endpoint # None
       THEN /\ busInitCalls' = busInitCalls + 1
            /\ busPc' = [busPc EXCEPT ![busInitCalls + 1] = "get_or_init"]
            /\ busServer' = [busServer EXCEPT ![busInitCalls + 1] =
                                cliArgs.mbus_endpoint[1]]
       ELSE UNCHANGED <<busInitCalls, busPc, busServer>>
    /\ UNCHANGED <<busCell, bus, connLogError, connFails, connWarns,
                   downFor, sessions>>
    /\ UNCHANGED <<regVars, loopVars, msgVars, cliArgs>>

\* an init that registers as soon as the message-bus endpoint is given
SubsystemInitMbusOnly ==
    /\ ssPc = "created"
    /\ ssPc' = "started"
    /\ IF cliArgs.mbus_endpoint # None
       THEN /\ IF reg = NoReg
               THEN /\ reg' = RegistrationNew(cliArgs.name, "", env)
                    /\ regsBuilt' = regsBuilt + 1
               ELSE UNCHANGED <<reg, regsBuilt>>
            /\ firstArgs' = IF initCalls = 0
                            THEN [node |-> cliArgs.name, grpc_endpoint |-> ""]
                            ELSE firstArgs
            /\ initCalls' = initCalls + 1
            /\ loopPc' = [loopPc EXCEPT ![initCalls + 1] = "wait"]
       ELSE UNCHANGED <<reg, regsBuilt, firstArgs, initCalls, loopPc>>
    /\ UNCHANGED <<env, finiCalls, closed>>
    /\ UNCHANGED <<waitLogError, waitWarns, published, flushed, ioFails>>
    /\ UNCHANGED <<busVars, msgVars, cliArgs>>

\* MessageBusSubsystem::init(): Registration::init(&args.name, &grpc) when
\* both endpoints are given (the instance is built and the runner spawned
\* as in RegistrationInit)
SubsystemInit ==
    /\ ssPc = "created"
    /\ ssPc' = "started"
    /\ IF BothEndpoints
       THEN /\ IF reg = NoReg
               THEN /\ reg' = RegistrationNew(cliArgs.name,
                                              cliArgs.grpc_endpoint[1], env)
                    /\ regsBuilt' = regsBuilt + 1
               ELSE UNCHANGED <<reg, regsBuilt>>
            /\ firstArgs' = IF initCalls = 0
                            THEN [node |-> cliArgs.name,
                                  grpc_endpoint |-> cliArgs.grpc_endpoint[1]]
                            ELSE firstArgs
            /\ initCalls' = initCalls + 1
            /\ loopPc' = [loopPc EXCEPT ![initCalls + 1] = "wait"]
       ELSE UNCHANGED <<reg, regsBuilt, firstArgs, initCalls, loopPc>>
    /\ UNCHANGED <<env, finiCalls, closed>>
    /\ UNCHANGED <<waitLogError, waitWarns, published, flushed, ioFails>>
    /\ UNCHANGED <<busVars, msgVars, cliArgs>>

\* a fini that looks at the message-bus endpoint only
SubsystemFiniMbusOnly ==
    /\ ssPc = "started"
    /\ IF cliArgs.mbus_endpoint # None
       THEN IF reg = NoReg
            THEN /\ ssPc' = "panicked"
                 /\ UNCHANGED <<finiCalls, closed>>
            ELSE /\ ssPc' = "stopped"
                 /\ finiCalls' = finiCalls + 1
                 /\ closed' = TRUE
       ELSE /\ ssPc' = "stopped"
            /\ UNCHANGED <<finiCalls, closed>>
    /\ UNCHANGED <<env, reg, regsBuilt, firstArgs, initCalls>>
    /\ UNCHANGED <<loopVars, busVars, msgVars, cliArgs>>

\* MessageBusSubsystem::fini(): Registration::get().fini() when both
\* endpoints are given; get() unwraps the cell and panics on an empty one
SubsystemFini ==
    /\ ssPc = "started"
    /\ IF BothEndpoints
       THEN IF reg = NoReg
            THEN /\ ssPc' = "panicked"
                 /\ UNCHANGED <<finiCalls, closed>>
            ELSE /\ ssPc' = "stopped"
                 /\ finiCalls' = finiCalls + 1
                 /\ closed' = TRUE
       ELSE /\ ssPc' = "stopped"
            /\ UNCHANGED <<finiCalls, closed>>
    /\ UNCHANGED <<env, reg, regsBuilt, firstArgs, initCalls>>
    /\ UNCHANGED <<loopVars, busVars, msgVars, cliArgs>>

\* ---------------------------------------------------------- specification
BusStep(t) ==
    \/ BusGetOrInit(t)
    \/ ConnectAttempt(t)

LoopStep(l) ==
    \/ WaitPoll(l)
    \/ RegisterFire(l)
    \/ \E ok \in BOOLEAN : RegisterDone(l, ok)
    \/ TimerFires(l)
    \/ RecvClosed(l)
    \/ \E ok \in BOOLEAN : DeregisterDone(l, ok)
    \/ \E ok \in BOOLEAN : FlushDone(l, ok)

Next ==
    \/ \E s \in Servers : MessageBusInit(s)
    \/ \E t \in BusIds : BusStep(t)
    \/ \E a \in InitArgs : RegistrationInit(a[1], a[2])
    \/ RegistrationFini
    \/ \E l \in LoopIds : LoopStep(l)

Spec == Init /\ [][Next]_vars

\* The process with a holder of the sender that sends messages on the
\* channel of the instance.
MsgNext ==
    \/ Next
    \/ \E l \in LoopIds : RecvMessage(l)

MsgSpec == Init /\ [][MsgNext]_vars

\* The process as the SPDK framework runs it: any command line, the
\* subsystem created, started and stopped once, and the threads this
\* spawns, each on its own OS thread.
SubsysStart ==
    /\ env \in EnvValues
    /\ reg = NoReg
    /\ regsBuilt = 0
    /\ firstArgs = NoArgs
    /\ initCalls = 0
    /\ finiCalls = 0
    /\ closed = FALSE
    /\ loopPc = [l \in LoopIds |-> "unborn"]
    /\ waitLogError = [l \in LoopIds |-> TRUE]
    /\ waitWarns = [l \in LoopIds |-> 0]
    /\ published = <<>>
    /\ flushed = [l \in LoopIds |-> "none"]
    /\ ioFails = 0
    /\ busCell = "empty"
    /\ bus = NoBus
    /\ busInitCalls = 0
    /\ busPc = [t \in BusIds |-> "unborn"]
    /\ busServer = [t \in BusIds |-> "none"]
    /\ connLogError = [t \in BusIds |-> TRUE]
    /\ connFails = [t \in BusIds |-> 0]
    /\ connWarns = [t \in BusIds |-> 0]
    /\ downFor \in 0..MaxDown
    /\ sessions = 0
    /\ msgLogged = 0
    /\ cliArgs \in CliArgs
    /\ ssPc = "none"

SubsysNext ==
    \/ SubsystemNew
    \/ SubsystemInit
    \/ SubsystemFini
    \/ \E t \in BusIds : BusStep(t)
    \/ \E l \in LoopIds : LoopStep(l)

SubsysSpec ==
    /\ SubsysStart
    /\ [][SubsysNext]_vars
    /\ \A t \in BusIds : WF_vars(BusStep(t))
    /\ \A l \in LoopIds : WF_vars(LoopStep(l))

\* The construction of the instance alone, over every value of the
\* environment variable: the process starts with both cells empty and
\* calls Registration::init.
HbInit ==
    /\ env \in HbEnvValues
    /\ reg = NoReg
    /\ regsBuilt = 0
    /\ firstArgs = NoArgs
    /\ initCalls = 0
    /\ finiCalls = 0
    /\ closed = FALSE
    /\ loopPc = [l \in LoopIds |-> "unborn"]
    /\ waitLogError = [l \in LoopIds |-> TRUE]
    /\ waitWarns = [l \in LoopIds |-> 0]
    /\ published = <<>>
    /\ flushed = [l \in LoopIds |-> "none"]
    /\ ioFails = 0
    /\ busCell = "empty"
    /\ bus = NoBus
    /\ busInitCalls = 0
    /\ busPc = [t \in BusIds |-> "unborn"]
    /\ busServer = [t \in BusIds |-> "none"]
    /\ connLogError = [t \in BusIds |-> TRUE]
    /\ connFails = [t \in BusIds |-> 0]
    /\ connWarns = [t \in BusIds |-> 0]
    /\ downFor = 0
    /\ sessions = 0
    /\ msgLogged = 0
    /\ cliArgs = [name |-> "node-a", mbus_endpoint |-> None,
                  grpc_endpoint |-> None]
    /\ ssPc = "none"

HbNext == \E a \in InitArgs : RegistrationInit(a[1], a[2])

HbSpec == HbInit /\ [][HbNext]_vars

\* Each spawned thread runs on its own OS thread and its timers expire, so
\* a thread that can take a step eventually takes one. select! polls the arm
\* of the closed channel whenever the runner is at the select, and picks
\* among the ready arms at random, so a runner that comes to the select of a
\* closed channel again and again eventually takes that arm.
FairSpec ==
    /\ Spec
    /\ \A t \in BusIds : WF_vars(BusStep(t))
    /\ \A l \in LoopIds : WF_vars(LoopStep(l))
    /\ \A l \in LoopIds : SF_vars(RecvClosed(l))

\* ----------------------------------------------------------------- claims
Spawned == {l \in LoopIds : loopPc[l] # "unborn"}

Deregisters == {i \in DOMAIN published : published[i].chan = "deregister"}

\* C1: no fire and no flush is attempted while NATS_MSG_BUS is empty: no
\* runner panics in message_bus(), and a runner that has left
\* wait_for_connection (a publish or flush in flight or behind it) finds the
\* cell populated.
C1_PublishOnlyWhenConnected ==
    /\ \A l \in LoopIds :
          /\ loopPc[l] # "panicked"
          /\ loopPc[l] \notin {"unborn", "wait"} => bus # NoBus
    /\ Len(published) > 0 => bus # NoBus

\* a runner has published and flushed while another one is still about to
\* publish for the first time
C1_Witness ==
    \E l, m \in LoopIds :
        flushed[l] # "none" /\ Len(published) >= 2 /\ loopPc[m] = "register"

\* C2: the publishes handed to the transport have the form
\* register, ..., register, deregister: every publish but the last one is a
\* register.
C2_RegistersThenDeregister ==
    \A i \in DOMAIN published :
        i < Len(published) => published[i].chan = "register"

\* C3: deregister is published at most once per process, and a runner that
\* has ended after fini() has published exactly one deregister carrying the
\* configured node.
C3_ExactlyOneDeregister ==
    /\ Cardinality(Deregisters) <= 1
    /\ (\E l \in LoopIds : loopPc[l] = "done") =>
          /\ closed
          /\ \E i \in Deregisters :
                published[i].payload = << <<"id", reg.node>> >>

\* C4: a fini() call on a closed channel changes nothing of the program
\* (only the count of fini calls moves), and a closed channel stays closed.
C4_FiniIdempotent ==
    [][ /\ closed => closed'
        /\ (closed /\ finiCalls' # finiCalls) =>
              UNCHANGED <<env, reg, regsBuilt, firstArgs, initCalls, closed,
                          loopVars, busVars>> ]_vars

\* fini() was called again after the channel was closed and a runner ended
C4_Witness ==
    finiCalls >= 2 /\ closed /\ \E l \in LoopIds : loopPc[l] = "done"

\* C5: after any number of init calls there is one Registration Instance,
\* built once, and its Configuration is the one of the first call.
C5_FirstConfiguration ==
    initCalls >= 1 =>
        /\ regsBuilt = 1
        /\ reg = [node |-> firstArgs.node,
                  grpc_endpoint |-> firstArgs.grpc_endpoint,
                  hb_interval |-> HbInterval(env)]

\* init was called twice and the instance is in use by a runner
C5_Witness ==
    initCalls >= 2 /\ reg # NoReg /\ Len(published) > 0

\* C6: an init call after the first one is a no-op: no second heartbeat loop
\* is started.
C6_InitIdempotent == Cardinality(Spawned) <= 1

\* C7: once message_bus_init was called, NATS_MSG_BUS is eventually
\* populated whatever the number of refused attempts, and every runner
\* waiting in wait_for_connection eventually leaves it.
C7_RetryConvergence ==
    /\ (busInitCalls > 0) ~> (bus # NoBus)
    /\ \A l \in LoopIds :
          (busInitCalls > 0 /\ loopPc[l] = "wait") ~> (loopPc[l] # "wait")

\* the broker has refused two attempts of the connect call and is up now,
\* while a runner polls the empty cell
C7_Witness ==
    /\ \E t \in BusIds : busPc[t] = "connect" /\ connFails[t] >= 2
    /\ downFor = 0
    /\ bus = NoBus
    /\ \E l \in LoopIds : loopPc[l] = "wait" /\ waitWarns[l] > 0

\* C8: a connect call logs one warning if any attempt failed, none
\* otherwise, however many attempts failed.
C8_OneConnectWarning ==
    \A t \in BusIds : connWarns[t] = IF connFails[t] > 0 THEN 1 ELSE 0

\* two attempts of one connect call failed
C8_Witness == \E t \in BusIds : connFails[t] >= 2 /\ connWarns[t] = 1

\* C9: one wait_for_connection call emits at most one "not ready" warning.
C9_OneWaitWarning == \A l \in LoopIds : waitWarns[l] <= 1

\* C10: at most one transport session is ever opened, and once populated
\* NATS_MSG_BUS never changes.
C10_BusWriteOnce ==
    [][ /\ sessions' <= 1
        /\ bus # NoBus => bus' = bus ]_vars

\* a second message_bus_init call ran to its end beside the first
C10_Witness ==
    /\ busInitCalls >= 2
    /\ bus # NoBus
    /\ \A t \in 1..2 : busPc[t] = "exit"

\* the publish a runner's register() hands to the transport
RegisterEntry(ok) ==
    [chan |-> "register", payload |-> RegisterPayload(reg), ok |-> ok]

\* the publish a runner's deregister() hands to the transport
DeregisterEntry(ok) ==
    [chan |-> "deregister", payload |-> DeregisterPayload(reg), ok |-> ok]

\* runner l leaves position p in this step
Leaves(l, p) == loopPc[l] = p /\ loopPc'[l] # p

\* C11: a runner that has left wait_for_connection publishes a first
\* register whatever the state of the channel; while the channel is open a
\* runner leaves the select only by the timer arm, into another register();
\* and every register() begun is handed to the transport.
C11_Heartbeat ==
    /\ \A l \in LoopIds : (loopPc[l] = "register") ~> (loopPc[l] = "select")
    /\ \A l \in LoopIds :
          (loopPc[l] = "register_inflight") ~> (loopPc[l] = "select")
    /\ [][ \A l \in LoopIds :
              /\ (Leaves(l, "select") /\ ~closed) =>
                    loopPc'[l] = "register_inflight"
              /\ Leaves(l, "register") => loopPc'[l] = "register_inflight"
              /\ Leaves(l, "register_inflight") =>
                    /\ loopPc'[l] = "select"
                    /\ \E ok \in BOOLEAN :
                          published' = Append(published, RegisterEntry(ok)) ]_vars

\* the one runner of the process has published a second register, after a
\* timer expiry, on the open channel
C11_Witness ==
    /\ Cardinality(Spawned) = 1
    /\ ~closed
    /\ Len(published) >= 2
    /\ \E l \in LoopIds : loopPc[l] = "select"

C13_FailuresAbsorbed ==
    /\ [](\A l \in LoopIds : loopPc[l] # "panicked")
    /\ [][ \A l \in LoopIds :
              /\ (Leaves(l, "register_inflight")
                    /\ published' = Append(published, RegisterEntry(FALSE))) =>
                    (loopPc'[l] = "select" /\ UNCHANGED regVars)
              /\ (Leaves(l, "deregister_inflight")
                    /\ published' = Append(published, DeregisterEntry(FALSE))) =>
                    (loopPc'[l] = "done" /\ UNCHANGED regVars)
              /\ (Leaves(l, "flush_inflight") /\ flushed'[l] = "err") =>
                    (loopPc'[l] = "done" /\ UNCHANGED regVars) ]_vars

\* the one runner's first register failed and it has published the next one
C13_Witness ==
    /\ Cardinality(Spawned) = 1
    /\ Len(published) >= 2
    /\ published[1] = RegisterEntry(FALSE)
    /\ published[2].chan = "register"

\* C14: whatever the broker and the threads are doing, a call of
\* message_bus_init and a call of Registration::init can be made and
\* returns in its own step: the call spawns its thread and leaves the
\* connecting, the waiting and the publishing to it.
C14_StartNeverBlocks ==
    /\ [](busInitCalls < MaxBusInit =>
             \A server \in Servers : ENABLED MessageBusInit(server))
    /\ [](initCalls < MaxInit =>
             \A a \in InitArgs : ENABLED RegistrationInit(a[1], a[2]))
    /\ [][ /\ busInitCalls' # busInitCalls =>
                /\ busPc'[busInitCalls'] = "get_or_init"
                /\ UNCHANGED <<busCell, bus, downFor, sessions>>
                /\ UNCHANGED <<regVars, loopVars>>
           /\ initCalls' # initCalls =>
                /\ loopPc'[initCalls'] = "wait"
                /\ UNCHANGED <<published, flushed, closed>>
                /\ UNCHANGED busVars ]_vars

\* both calls have returned while the connect thread is still failing to
\* reach the broker
C14_Witness ==
    /\ busInitCalls >= 1
    /\ initCalls >= 1
    /\ downFor > 0
    /\ bus = NoBus
    /\ \E t \in BusIds : busPc[t] = "connect" /\ connFails[t] >= 1

\* the value of a decimal digit
DecimalDigit(c) ==
    CASE c = "0" -> 0 [] c = "1" -> 1 [] c = "2" -> 2 [] c = "3" -> 3
      [] c = "4" -> 4 [] c = "5" -> 5 [] c = "6" -> 6 [] c = "7" -> 7
      [] c = "8" -> 8 [] c = "9" -> 9

\* the numeral of s: s without one leading plus sign
Numeral(s) == IF s # <<>> /\ Head(s) = "+" THEN Tail(s) ELSE s

\* s is an unsigned decimal integer
IsUnsignedInteger(s) ==
    /\ Numeral(s) # <<>>
    /\ \A i \in DOMAIN Numeral(s) :
          Numeral(s)[i] \in {"0", "1", "2", "3", "4", "5", "6", "7", "8", "9"}

\* the number a string of decimal digits denotes, read from the left
RECURSIVE Denotes(_, _)
Denotes(acc, s) ==
    IF s = <<>> THEN acc
    ELSE Denotes(10 * acc + DecimalDigit(Head(s)), Tail(s))

\* C15: the heartbeat interval of the instance is the number the
\* environment value denotes when the variable is set to an unsigned
\* decimal integer, and 2 seconds for every other input.
C15_HeartbeatInterval ==
    reg # NoReg =>
        reg.hb_interval =
            IF env.set /\ IsUnsignedInteger(env.val)
            THEN Denotes(0, Numeral(env.val))
            ELSE 2

\* the instance built with MAYASTOR_HB_INTERVAL=19
C15_Witness ==
    /\ reg # NoReg
    /\ env = [set |-> TRUE, val |-> <<"1", "9">>]
    /\ reg.hb_interval = 19

\* C16: every runner that has exited has attempted a flush, whether or
\* not its deregister publish failed.
C16_FlushAlwaysAttempted ==
    \A l \in LoopIds : loopPc[l] = "done" => flushed[l] # "none"

\* C16 with the early return: a runner publishes deregister once; when the
\* fire succeeds it attempts the flush and exits whatever the flush
\* returns; when the fire fails it exits without attempting the flush.
C16_FlushOnlyAfterQueuedDeregister ==
    [][ \A l \in LoopIds :
           /\ Leaves(l, "deregister_inflight") =>
                 \E ok \in BOOLEAN :
                    /\ published' = Append(published, DeregisterEntry(ok))
                    /\ loopPc'[l] = IF ok THEN "flush_inflight" ELSE "done"
                    /\ flushed'[l] = "none"
           /\ Leaves(l, "flush_inflight") =>
                 /\ loopPc'[l] = "done"
                 /\ flushed'[l] \in {"ok", "err"}
                 /\ published' = published
           /\ loopPc[l] \in {"flush_inflight", "done"} =>
                 loopPc'[l] \in {"flush_inflight", "done"}
           /\ (loopPc'[l] = "done" /\ loopPc[l] # "done") =>
                 loopPc[l] \in {"deregister_inflight", "flush_inflight"} ]_vars

\* a runner has exited on a failed deregister publish without a flush
C16_Witness ==
    /\ Len(published) >= 1
    /\ published[Len(published)] = DeregisterEntry(FALSE)
    /\ \E l \in LoopIds : loopPc[l] = "done" /\ flushed[l] = "none"

\* C17: once a deregister has been published nothing more is published in
\* the process.
C17_TerminatingIsTerminal ==
    [][Deregisters # {} => published' = published]_vars

\* C18: while fini() has not been called the channel is open, every runner
\* is unborn, waiting for the connection, registering or at the select, and
\* no deregister has been published.
C18_OnlyFiniCancels ==
    /\ closed <=> finiCalls > 0
    /\ finiCalls = 0 =>
          /\ Deregisters = {}
          /\ \A l \in LoopIds :
                loopPc[l] \in {"unborn", "wait", "register",
                               "register_inflight", "select"}

\* the heartbeat has published twice and fini() has not been called
C18_Witness ==
    /\ finiCalls = 0
    /\ Len(published) >= 2
    /\ \E l \in LoopIds : loopPc[l] = "select"

\* C19: a runner begins its deregister only from the select of a closed
\* channel; a fini() moves no runner; a register in flight ends recorded on
\* the transport with its runner at the select, and a deregister in flight
\* ends recorded on the transport, whether or not the channel was closed
\* meanwhile.
C19_CooperativeCancellation ==
    [][ \A l \in LoopIds :
           /\ (loopPc'[l] = "deregister_inflight" /\ loopPc[l] # loopPc'[l]) =>
                 (loopPc[l] = "select" /\ closed)
           /\ finiCalls' # finiCalls => loopPc' = loopPc /\ published' = published
           /\ Leaves(l, "register_inflight") =>
                 /\ loopPc'[l] = "select"
                 /\ \E ok \in BOOLEAN :
                       published' = Append(published, RegisterEntry(ok))
           /\ Leaves(l, "deregister_inflight") =>
                 \E ok \in BOOLEAN :
                    published' = Append(published, DeregisterEntry(ok)) ]_vars

\* fini() has been called while a register is in flight
C19_Witness ==
    /\ closed
    /\ \E l \in LoopIds : loopPc[l] = "register_inflight"

\* C20: at most one publish of the instance is in flight at any moment.
C20_SequentialPublishes ==
    Cardinality({ l \in LoopIds :
                    loopPc[l] \in {"register_inflight",
                                   "deregister_inflight"} }) <= 1

\* C21: the step that logs a message received on the open channel leaves
\* every runner where it was, at the select with nothing in flight, and
\* publishes nothing.
C21_MessageIsNoOp ==
    [][msgLogged' # msgLogged =>
          (loopPc' = loopPc /\ published' = published)]_vars

\* C22: every publish is a register or a deregister; a register carries
\* id = the node and grpcEndpoint = the endpoint of the first init call, a
\* deregister carries id = that same node.
C22_PublishIdentity ==
    \A i \in DOMAIN published :
        \/ /\ published[i].chan = "register"
           /\ published[i].payload =
                 << <<"id", firstArgs.node>>,
                    <<"grpcEndpoint", firstArgs.grpc_endpoint>> >>
        \/ /\ published[i].chan = "deregister"
           /\ published[i].payload = << <<"id", firstArgs.node>> >>

\* after two init calls a register and a deregister have been published
C22_Witness ==
    /\ initCalls >= 2
    /\ Len(published) >= 2
    /\ published[1].chan = "register"
    /\ published[Len(published)].chan = "deregister"

\* the publishes on channel c among the first k of the process
PublishedOn(c, k) == {i \in 1..k : published[i].chan = c}

\* C23: a runner reaches its deregister only through the select, and the
\* select only through a register handed to the transport, also when the
\* channel was closed before the connection was ready; so at every moment
\* the deregisters published so far are no more than the registers
\* published before them.
C23_RegisterBeforeDeregister ==
    /\ [](\A k \in 0..Len(published) :
             Cardinality(PublishedOn("deregister", k)) <=
                Cardinality(PublishedOn("register", k)))
    /\ [][ \A l \in LoopIds :
              /\ Leaves(l, "wait") => loopPc'[l] = "register"
              /\ Leaves(l, "register") => loopPc'[l] = "register_inflight"
              /\ (loopPc'[l] = "select" /\ loopPc[l] # "select") =>
                    /\ loopPc[l] = "register_inflight"
                    /\ Len(published') = Len(published) + 1
                    /\ published'[Len(published')].chan = "register"
              /\ (loopPc'[l] = "deregister_inflight"
                    /\ loopPc[l] # "deregister_inflight") =>
                    loopPc[l] = "select" ]_vars

\* the one runner has published one register and then its deregister
C23_Witness ==
    /\ Cardinality(Spawned) = 1
    /\ Len(published) = 2
    /\ published[1].chan = "register"
    /\ published[2].chan = "deregister"

\* C24: in a run of new, init, fini the stop entry point never unwraps an
\* empty cell: after init the instance exists exactly when both endpoints
\* are given, and fini has closed its channel exactly in that case.
C24_StopNeverPanics ==
    /\ ssPc # "panicked"
    /\ ssPc \in {"started", "stopped"} => (reg # NoReg <=> BothEndpoints)
    /\ ssPc = "stopped" =>
          /\ BothEndpoints => (finiCalls = 1 /\ closed)
          /\ ~BothEndpoints => (finiCalls = 0 /\ ~closed)

\* the subsystem has been stopped with both endpoints given: fini found the
\* instance and closed its channel
C24_Witness ==
    /\ ssPc = "stopped"
    /\ BothEndpoints
    /\ finiCalls = 1
    /\ closed

\* the message-bus endpoint is given on the command line, the gRPC
\* endpoint is not
MbusOnly ==
    cliArgs.mbus_endpoint # None /\ cliArgs.grpc_endpoint = None

\* C25: with the message-bus endpoint and no gRPC endpoint, new starts one
\* connect thread, which connects; no instance is built, no runner is
\* spawned, nothing is published and the channel is never closed by a fini.
C25_MbusWithoutGrpc ==
    /\ [](MbusOnly =>
             /\ reg = NoReg
             /\ Spawned = {}
             /\ published = <<>>
             /\ finiCalls = 0
             /\ ~closed
             /\ ssPc # "none" => busInitCalls = 1)
    /\ (MbusOnly /\ ssPc # "none") ~> (bus # NoBus)

\* the subsystem has been stopped with no gRPC endpoint and the connect
\* thread has connected
C25_Witness ==
    /\ MbusOnly
    /\ ssPc = "stopped"
    /\ bus # NoBus

====
